---------------------------- MODULE Spec2Model ----------------------------
(***************************************************************************)
(* State-machine model of src/run.py (NovaVoiceChat and main).             *)
(*                                                                         *)
(* asyncio is cooperative: a task runs from one suspension point (await)   *)
(* to the next without interruption, so every action below is one such     *)
(* run of one task.  Two drivers are modelled over the same session        *)
(* object:                                                                 *)
(*   Spec     the orchestrator main() with its capture, playback and       *)
(*            response tasks;                                              *)
(*   SpecApi  an arbitrary caller invoking the session methods one after   *)
(*            the other, each call awaited to completion (the response     *)
(*            task it creates puts nothing on the wire and is left idle).  *)
(* The transport is taken to be reliable: a send on an open input stream   *)
(* puts the event on the wire.                                             *)
(***************************************************************************)
EXTENDS Naturals, Sequences, FiniteSets, TLC

(* ------------------------------ bounds -------------------------------- *)
\* at most this many chunks are read from the capture device
MaxChunks == 2
\* at most this many inbound messages are delivered by the transport
MaxInbound == 2
\* at most this many start_session() calls by the API caller
MaxStarts == 2
\* at most this many method calls by the API caller
MaxOps == 6
\* at most this many inbound messages when the loops are driven on their own
MaxReceived == 4

(* --------------------------- identifiers ------------------------------ *)
\* uuid4 strings generated once in __init__
prompt_name == "prompt-uuid"
content_name == "content-uuid"
audio_content_name == "audio-uuid"

(* ------------------------------ base64 -------------------------------- *)
B64Chars ==
  << "A","B","C","D","E","F","G","H","I","J","K","L","M","N","O","P",
     "Q","R","S","T","U","V","W","X","Y","Z","a","b","c","d","e","f",
     "g","h","i","j","k","l","m","n","o","p","q","r","s","t","u","v",
     "w","x","y","z","0","1","2","3","4","5","6","7","8","9","+","/" >>

B64Set == { B64Chars[i] : i \in 1..Len(B64Chars) }

B64Val(c) == (CHOOSE i \in 1..Len(B64Chars) : B64Chars[i] = c) - 1

\* base64.b64encode over a sequence of bytes, result as a sequence of characters
RECURSIVE b64encode(_)
b64encode(bs) ==
  IF Len(bs) = 0 THEN << >>
  ELSE IF Len(bs) = 1 THEN
    << B64Chars[(bs[1] \div 4) + 1], B64Chars[((bs[1] % 4) * 16) + 1], "=", "=" >>
  ELSE IF Len(bs) = 2 THEN
    << B64Chars[(bs[1] \div 4) + 1],
       B64Chars[((bs[1] % 4) * 16) + (bs[2] \div 16) + 1],
       B64Chars[((bs[2] % 16) * 4) + 1], "=" >>
  ELSE
    << B64Chars[(bs[1] \div 4) + 1],
       B64Chars[((bs[1] % 4) * 16) + (bs[2] \div 16) + 1],
       B64Chars[((bs[2] % 16) * 4) + (bs[3] \div 64) + 1],
       B64Chars[(bs[3] % 64) + 1] >> \o b64encode(SubSeq(bs, 4, Len(bs)))

\* the bytes completed by the sextets of a (possibly partial) quad
QuadBytes(q) ==
  IF Len(q) < 2 THEN << >>
  ELSE IF Len(q) = 2 THEN << (q[1] * 4) + (q[2] \div 16) >>
  ELSE IF Len(q) = 3 THEN
    << (q[1] * 4) + (q[2] \div 16), ((q[2] % 16) * 16) + (q[3] \div 4) >>
  ELSE
    << (q[1] * 4) + (q[2] \div 16), ((q[2] % 16) * 16) + (q[3] \div 4),
       ((q[3] % 4) * 64) + q[4] >>

\* binascii.a2b_base64 in its default non-strict mode: characters outside
\* the alphabet are skipped, padding that completes a quad ends the data,
\* and a quad left incomplete at the end of input is an error.
RECURSIVE a2b_base64(_, _, _, _, _)
a2b_base64(s, i, quad, pads, out) ==
  IF i > Len(s) THEN [ok |-> quad = << >>, bytes |-> out]
  ELSE IF s[i] = "=" THEN
    IF Len(quad) >= 2 /\ Len(quad) + pads + 1 >= 4
      THEN [ok |-> TRUE, bytes |-> out \o QuadBytes(quad)]
      ELSE a2b_base64(s, i + 1, quad, IF Len(quad) >= 2 THEN pads + 1 ELSE pads, out)
  ELSE IF s[i] \notin B64Set THEN a2b_base64(s, i + 1, quad, pads, out)
  ELSE IF Len(quad) = 3
    THEN a2b_base64(s, i + 1, << >>, 0, out \o QuadBytes(Append(quad, B64Val(s[i]))))
    ELSE a2b_base64(s, i + 1, Append(quad, B64Val(s[i])), 0, out)

\* base64.b64decode(audio_content): [ok, bytes]; ~ok is binascii.Error
b64decode(s) == a2b_base64(s, 1, << >>, 0, << >>)

(* ------------------------- outbound events ---------------------------- *)
\* the JSON envelopes built by the f-strings, by event name and the
\* interpolated fields
session_start == [event |-> "sessionStart"]

prompt_start == [event |-> "promptStart", promptName |-> prompt_name]

text_content_start ==
  [event |-> "contentStart", promptName |-> prompt_name,
   contentName |-> content_name, type |-> "TEXT", role |-> "SYSTEM"]

text_input ==
  [event |-> "textInput", promptName |-> prompt_name,
   contentName |-> content_name, content |-> "system_prompt"]

text_content_end ==
  [event |-> "contentEnd", promptName |-> prompt_name, contentName |-> content_name]

audio_content_start ==
  [event |-> "contentStart", promptName |-> prompt_name,
   contentName |-> audio_content_name, type |-> "AUDIO", role |-> "USER"]

audio_event(audio_bytes) ==
  [event |-> "audioInput", promptName |-> prompt_name,
   contentName |-> audio_content_name, content |-> b64encode(audio_bytes)]

audio_content_end ==
  [event |-> "contentEnd", promptName |-> prompt_name,
   contentName |-> audio_content_name]

prompt_end == [event |-> "promptEnd", promptName |-> prompt_name]

session_end == [event |-> "sessionEnd"]

\* StartEvents with the first two sends exchanged: the prompt is started
\* before the session
StartEventsPromptFirst ==
  << prompt_start, session_start, text_content_start, text_input, text_content_end >>

\* the five events of start_session, in the order of its send_event calls
StartEvents ==
  << session_start, prompt_start, text_content_start, text_input, text_content_end >>

(* ------------------------------ state --------------------------------- *)
VARIABLES
  is_active,               \* self.is_active
  stream,                  \* self.stream: "None", "open", or "closed" (input closed)
  response,                \* self.response: 0 for None, else the id of the task
  role,                    \* self.role ("None" before the first contentStart)
  display_assistant_text,  \* self.display_assistant_text
  audio_queue,             \* self.audio_queue, an unbounded asyncio.Queue
  sent,                    \* events put on the transport by input_stream.send
  respTask,                \* state of every _process_responses task created
  respCancel,              \* response tasks with a cancellation pending
  pcMain,                  \* position of main()
  startStep,               \* send_event calls completed inside start_session
  pcCapture,               \* position of the capture_audio task
  pcPlayback,              \* position of the play_audio task
  cancelReq,               \* of "capture", "playback": cancellation pending
  capDev,                  \* capture device: "unopened", "open", "released"
  playDev,                 \* playback device: "unopened", "open", "released"
  chunk,                   \* audio_data held by capture_audio during its send
  nChunks,                 \* chunks read from the capture device so far
  printed,                 \* transcript lines printed by _process_responses
  played,                  \* chunks written to the playback device
  nIn,                     \* inbound messages delivered so far
  lastOp,                  \* API driver: the method called last
  prevOp,                  \* API driver: the method called before that one
  opResult,                \* API driver: "ok" or "raised" for the previous call
  nOps,                    \* API driver: calls made so far
  nStarts,                 \* streams opened by start_session so far
  lastIn,                  \* observer: the inbound message received last
  lastStart,               \* observer: body of the contentStart received last
  hinted,                  \* observer: a contentStart carried a generationStage
  audioIn                  \* observer: contents of the audioOutput messages received

sessionVars == << is_active, stream, response, role, display_assistant_text, audio_queue >>
taskVars == << pcMain, startStep, pcCapture, pcPlayback, cancelReq, capDev, playDev,
               chunk, nChunks >>
respVars == << respTask, respCancel, printed, nIn >>
apiVars == << lastOp, prevOp, opResult, nOps >>
obsVars == << lastIn, lastStart, hinted, audioIn >>
vars == << sessionVars, sent, taskVars, respVars, played, apiVars, nStarts, obsVars >>

TaskIds == 1..MaxStarts

\* chunks stream.read can return (CHUNK_SIZE frames, shortened)
AudioChunks == { << 0, 1, 2 >>, << 255, 16 >> }

\* __init__ (lines 35-50) and nothing started yet
InitSession ==
  /\ is_active = FALSE
  /\ stream = "None"
  /\ response = 0
  /\ role = "None"
  /\ display_assistant_text = FALSE
  /\ audio_queue = << >>
  /\ sent = << >>
  /\ respTask = [i \in TaskIds |-> "none"]
  /\ respCancel = {}
  /\ startStep = 0
  /\ pcCapture = "none"
  /\ pcPlayback = "none"
  /\ cancelReq = {}
  /\ capDev = "unopened"
  /\ playDev = "unopened"
  /\ chunk = << >>
  /\ nChunks = 0
  /\ printed = << >>
  /\ played = << >>
  /\ nIn = 0
  /\ lastOp = "none"
  /\ prevOp = "none"
  /\ opResult = "ok"
  /\ nOps = 0
  /\ nStarts = 0
  /\ lastIn = [none |-> TRUE]
  /\ lastStart = [none |-> TRUE]
  /\ hinted = FALSE
  /\ audioIn = << >>

Init == InitSession /\ pcMain = "init"

InitApi == InitSession /\ pcMain = "api"

(* ------------------------ session operations -------------------------- *)
\* send_event: input_stream.send on the current stream.  self.stream is None
\* before start_session (AttributeError) and a closed input stream refuses
\* the event: in both cases the call raises and nothing is put on the wire.
CanSend == stream = "open"

\* asyncio.create_task(self._process_responses()) stored in self.response
CreateResponseTask ==
  /\ response' = nStarts + 1
  /\ respTask' = [respTask EXCEPT ![nStarts + 1] = "await"]

\* start_session awaited to completion
start_session ==
  /\ stream' = "open"
  /\ is_active' = TRUE
  /\ sent' = sent \o StartEvents
  /\ CreateResponseTask
  /\ nStarts' = nStarts + 1
  /\ opResult' = "ok"

\* start_audio_input awaited to completion
start_audio_input ==
  /\ IF CanSend
       THEN sent' = Append(sent, audio_content_start) /\ opResult' = "ok"
       ELSE sent' = sent /\ opResult' = "raised"
  /\ UNCHANGED << is_active, stream, response, respTask, nStarts >>

\* send_audio_chunk without the is_active test of lines 201-202
send_audio_chunk_unguarded(audio_bytes) ==
  /\ IF CanSend
       THEN sent' = Append(sent, audio_event(audio_bytes)) /\ opResult' = "ok"
       ELSE sent' = sent /\ opResult' = "raised"
  /\ UNCHANGED << is_active, stream, response, respTask, nStarts >>

\* send_audio_chunk awaited to completion
send_audio_chunk(audio_bytes) ==
  /\ IF ~is_active
       THEN sent' = sent /\ opResult' = "ok"
       ELSE IF CanSend
         THEN sent' = Append(sent, audio_event(audio_bytes)) /\ opResult' = "ok"
         ELSE sent' = sent /\ opResult' = "raised"
  /\ UNCHANGED << is_active, stream, response, respTask, nStarts >>

\* end_audio_input awaited to completion
end_audio_input ==
  /\ IF CanSend
       THEN sent' = Append(sent, audio_content_end) /\ opResult' = "ok"
       ELSE sent' = sent /\ opResult' = "raised"
  /\ UNCHANGED << is_active, stream, response, respTask, nStarts >>

\* end_session without line 258: is_active is not cleared after the stream
\* is closed
end_session_stays_active ==
  /\ IF ~is_active
       THEN UNCHANGED << sent, stream, is_active >> /\ opResult' = "ok"
       ELSE IF CanSend
         THEN /\ sent' = sent \o << prompt_end, session_end >>
              /\ stream' = "closed"
              /\ UNCHANGED is_active
              /\ opResult' = "ok"
         ELSE UNCHANGED << sent, stream, is_active >> /\ opResult' = "raised"
  /\ UNCHANGED << response, respTask, nStarts >>

\* end_session awaited to completion
end_session ==
  /\ IF ~is_active
       THEN UNCHANGED << sent, stream, is_active >> /\ opResult' = "ok"
       ELSE IF CanSend
         THEN /\ sent' = sent \o << prompt_end, session_end >>
              /\ stream' = "closed"
              /\ is_active' = FALSE
              /\ opResult' = "ok"
         ELSE UNCHANGED << sent, stream, is_active >> /\ opResult' = "raised"
  /\ UNCHANGED << response, respTask, nStarts >>

(* ----------------------------- API driver ----------------------------- *)
ApiFrame ==
  UNCHANGED << role, display_assistant_text, audio_queue, respCancel, taskVars,
               printed, played, nIn, obsVars >>

ApiCall(op) ==
  /\ pcMain = "api"
  /\ nOps < MaxOps
  /\ nOps' = nOps + 1
  /\ lastOp' = op
  /\ prevOp' = lastOp
  /\ ApiFrame

ApiStartSession == ApiCall("start_session") /\ nStarts < MaxStarts /\ start_session

ApiStartAudioInput == ApiCall("start_audio_input") /\ start_audio_input

ApiSendAudioChunk ==
  ApiCall("send_audio_chunk") /\ \E b \in AudioChunks : send_audio_chunk(b)

ApiEndAudioInput == ApiCall("end_audio_input") /\ end_audio_input

ApiEndSession == ApiCall("end_session") /\ end_session

NextApi ==
  \/ ApiStartSession
  \/ ApiStartAudioInput
  \/ ApiSendAudioChunk
  \/ ApiEndAudioInput
  \/ ApiEndSession

SpecApi == InitApi /\ [][NextApi]_vars

(* ------------------------- inbound messages --------------------------- *)
\* A JSON text is modelled by whether it parses and the value it parses to;
\* objects are records, so that  'k' in obj  is  "k" \in DOMAIN obj.
json_loads(text) == [ok |-> text.wellformed, value |-> text.value]

JsonText(v) == [wellformed |-> TRUE, value |-> v]
NotJson == [wellformed |-> FALSE, value |-> [none |-> "none"]]

\* contents of the additionalModelFields string
ModelFieldTexts ==
  { JsonText([generationStage |-> "SPECULATIVE"]),
    JsonText([generationStage |-> "FINAL"]),
    JsonText([other |-> "x"]),
    NotJson }

Roles == { "USER", "ASSISTANT" }

ContentStartBodies ==
  { [role |-> r] : r \in Roles }
    \cup { [role |-> r, additionalModelFields |-> a] : r \in Roles, a \in ModelFieldTexts }
    \cup { [additionalModelFields |-> JsonText([generationStage |-> "SPECULATIVE"])] }

TextOutputBodies == { [content |-> "Hi"], [role |-> "ASSISTANT"] }

AudioOutputBodies ==
  { [content |-> << "A", "A", "E", "C" >>],    \* bytes 0, 1, 2
    [content |-> << "/", "x", "A", "=" >>],    \* bytes 255, 16
    [content |-> << "A", "A", "E" >>],         \* incorrect padding
    [contentId |-> "c"] }                      \* no content field

\* what output[1].receive() can return: result.value.bytes_ as a JSON text,
\* or a result without bytes
InboundMessages ==
  { [bytes |-> JsonText([event |-> [contentStart |-> b]])] : b \in ContentStartBodies }
    \cup { [bytes |-> JsonText([event |-> [textOutput |-> b]])] : b \in TextOutputBodies }
    \cup { [bytes |-> JsonText([event |-> [audioOutput |-> b]])] : b \in AudioOutputBodies }
    \cup { [bytes |-> JsonText([event |-> [contentEnd |-> [stopReason |-> "END_TURN"]]])],
           [bytes |-> JsonText([usage |-> "x"])],
           [bytes |-> NotJson],
           [empty |-> TRUE] }

(* -------------------- _process_responses (task) ----------------------- *)
\* HandleContentStart without the else branch of lines 287-288: the flag is
\* set on SPECULATIVE and never cleared
HandleContentStartNoClear(cs) ==
  IF "role" \notin DOMAIN cs
    THEN [raised |-> TRUE, role |-> role, display |-> display_assistant_text]
  ELSE IF "additionalModelFields" \notin DOMAIN cs
    THEN [raised |-> FALSE, role |-> cs.role, display |-> display_assistant_text]
  ELSE IF ~json_loads(cs.additionalModelFields).ok
    THEN [raised |-> TRUE, role |-> cs.role, display |-> display_assistant_text]
  ELSE LET additional_fields == json_loads(cs.additionalModelFields).value IN
    [raised |-> FALSE, role |-> cs.role,
     display |-> (display_assistant_text
                    \/ ("generationStage" \in DOMAIN additional_fields
                          /\ additional_fields.generationStage = "SPECULATIVE"))]

\* The body of one loop iteration on message m, lines 267-303, as the next
\* values of the fields it touches; raised is an exception leaving the
\* while loop for the handler of line 306.
HandleContentStart(cs) ==
  IF "role" \notin DOMAIN cs
    THEN [raised |-> TRUE, role |-> role, display |-> display_assistant_text]
  ELSE IF "additionalModelFields" \notin DOMAIN cs
    THEN [raised |-> FALSE, role |-> cs.role, display |-> display_assistant_text]
  ELSE IF ~json_loads(cs.additionalModelFields).ok
    THEN [raised |-> TRUE, role |-> cs.role, display |-> display_assistant_text]
  ELSE LET additional_fields == json_loads(cs.additionalModelFields).value IN
    [raised |-> FALSE, role |-> cs.role,
     display |-> ("generationStage" \in DOMAIN additional_fields
                    /\ additional_fields.generationStage = "SPECULATIVE")]

\* HandleTextOutput without the display_assistant_text test of line 294
HandleTextOutputAlways(to) ==
  IF "content" \notin DOMAIN to THEN [raised |-> TRUE, lines |-> << >>]
  ELSE IF role = "ASSISTANT"
    THEN [raised |-> FALSE, lines |-> << [who |-> "ASSISTANT", text |-> to.content] >>]
  ELSE IF role = "USER"
    THEN [raised |-> FALSE, lines |-> << [who |-> "USER", text |-> to.content] >>]
  ELSE [raised |-> FALSE, lines |-> << >>]

\* lines 291-297: the line printed for a textOutput, if any
HandleTextOutput(to) ==
  IF "content" \notin DOMAIN to THEN [raised |-> TRUE, lines |-> << >>]
  ELSE IF role = "ASSISTANT" /\ display_assistant_text
    THEN [raised |-> FALSE, lines |-> << [who |-> "ASSISTANT", text |-> to.content] >>]
  ELSE IF role = "USER"
    THEN [raised |-> FALSE, lines |-> << [who |-> "USER", text |-> to.content] >>]
  ELSE [raised |-> FALSE, lines |-> << >>]

\* HandleAudioOutput without line 302: the base64 text itself is queued
HandleAudioOutputRaw(ao) ==
  IF "content" \notin DOMAIN ao THEN [raised |-> TRUE, chunks |-> << >>]
  ELSE [raised |-> FALSE, chunks |-> << ao.content >>]

\* lines 300-303: the chunk put on audio_queue, if any
HandleAudioOutput(ao) ==
  IF "content" \notin DOMAIN ao THEN [raised |-> TRUE, chunks |-> << >>]
  ELSE IF ~b64decode(ao.content).ok THEN [raised |-> TRUE, chunks |-> << >>]
  ELSE [raised |-> FALSE, chunks |-> << b64decode(ao.content).bytes >>]

\* after an iteration: the exception handler ends the task, otherwise the
\* while condition is evaluated again
AfterIteration(id, raised) ==
  respTask' = [respTask EXCEPT ![id] = IF raised \/ ~is_active THEN "done" ELSE "await"]

process_responses(id, m) ==
  IF "bytes" \notin DOMAIN m THEN
    /\ AfterIteration(id, FALSE)
    /\ UNCHANGED << role, display_assistant_text, printed, audio_queue >>
  ELSE IF ~json_loads(m.bytes).ok THEN
    /\ AfterIteration(id, TRUE)
    /\ UNCHANGED << role, display_assistant_text, printed, audio_queue >>
  ELSE LET json_data == json_loads(m.bytes).value IN
    IF "event" \notin DOMAIN json_data THEN
      /\ AfterIteration(id, FALSE)
      /\ UNCHANGED << role, display_assistant_text, printed, audio_queue >>
    ELSE IF "contentStart" \in DOMAIN json_data.event THEN
      LET r == HandleContentStart(json_data.event.contentStart) IN
      /\ role' = r.role
      /\ display_assistant_text' = r.display
      /\ AfterIteration(id, r.raised)
      /\ UNCHANGED << printed, audio_queue >>
    ELSE IF "textOutput" \in DOMAIN json_data.event THEN
      LET r == HandleTextOutput(json_data.event.textOutput) IN
      /\ printed' = printed \o r.lines
      /\ AfterIteration(id, r.raised)
      /\ UNCHANGED << role, display_assistant_text, audio_queue >>
    ELSE IF "audioOutput" \in DOMAIN json_data.event THEN
      LET r == HandleAudioOutput(json_data.event.audioOutput) IN
      /\ audio_queue' = audio_queue \o r.chunks
      /\ AfterIteration(id, r.raised)
      /\ UNCHANGED << role, display_assistant_text, printed >>
    ELSE
      /\ AfterIteration(id, FALSE)
      /\ UNCHANGED << role, display_assistant_text, printed, audio_queue >>

\* the task is resumed with the next message of the stream
Dispatch ==
  \E id \in TaskIds, m \in InboundMessages :
    /\ respTask[id] = "await"
    /\ id \notin respCancel
    /\ nIn < MaxInbound
    /\ nIn' = nIn + 1
    /\ process_responses(id, m)
    /\ UNCHANGED << is_active, stream, response, sent, respCancel, taskVars, played,
                    apiVars, nStarts, obsVars >>

\* CancelledError thrown into the task at its await: handler of line 304
DispatchCancelled ==
  \E id \in respCancel :
    /\ respTask[id] = "await"
    /\ respTask' = [respTask EXCEPT ![id] = "done"]
    /\ UNCHANGED << sessionVars, sent, respCancel, printed, nIn, taskVars, played,
                    apiVars, nStarts, obsVars >>

(* ------------------------- play_audio (task) -------------------------- *)
PlaybackFrame ==
  UNCHANGED << is_active, stream, response, role, display_assistant_text, sent,
               respVars, pcMain, startStep, pcCapture, capDev, chunk, nChunks,
               apiVars, nStarts, obsVars >>

\* PlaybackLoop with "while True" for line 317: is_active is not looked at
PlaybackLoopForever ==
  /\ pcPlayback' = "wait"
  /\ playDev' = "open"

\* while self.is_active (line 317): wait on the queue again, or fall through
\* to the finally block that releases the device (lines 330-333)
PlaybackLoop ==
  /\ pcPlayback' = IF is_active THEN "wait" ELSE "done"
  /\ playDev' = IF is_active THEN "open" ELSE "released"

\* first run of the task: lines 311-319
PlaybackStart ==
  /\ pcPlayback = "created"
  /\ PlaybackLoop
  /\ UNCHANGED << audio_queue, played, cancelReq >>
  /\ PlaybackFrame

\* audio_queue.get() returned within the timeout: stream.write, line 322
PlaybackGet ==
  /\ pcPlayback = "wait"
  /\ "playback" \notin cancelReq
  /\ audio_queue # << >>
  /\ played' = Append(played, Head(audio_queue))
  /\ audio_queue' = Tail(audio_queue)
  /\ PlaybackLoop
  /\ UNCHANGED cancelReq
  /\ PlaybackFrame

\* asyncio.TimeoutError after 0.5 s on an empty queue: continue, line 325
PlaybackTimeout ==
  /\ pcPlayback = "wait"
  /\ "playback" \notin cancelReq
  /\ audio_queue = << >>
  /\ PlaybackLoop
  /\ UNCHANGED << audio_queue, played, cancelReq >>
  /\ PlaybackFrame

\* CancelledError at the wait_for: handler of line 326, then finally
PlaybackCancelled ==
  /\ pcPlayback = "wait"
  /\ "playback" \in cancelReq
  /\ cancelReq' = cancelReq \ { "playback" }
  /\ pcPlayback' = "done"
  /\ playDev' = "released"
  /\ UNCHANGED << audio_queue, played >>
  /\ PlaybackFrame

(* ------------------------ capture_audio (task) ------------------------ *)
CaptureFrame ==
  UNCHANGED << is_active, stream, response, role, display_assistant_text, audio_queue,
               respVars, pcMain, startStep, pcPlayback, playDev, played, apiVars,
               nStarts, obsVars >>

\* finally block, lines 360-365: the device is released, then end_audio_input
\* is awaited
CaptureFinally ==
  /\ capDev' = "released"
  /\ pcCapture' = "close_send"

\* while self.is_active (line 352): read a chunk and await its send (the
\* is_active test of send_audio_chunk follows without a suspension), or fall
\* through to finally
CaptureLoop ==
  IF is_active
    THEN /\ nChunks < MaxChunks
         /\ \E b \in AudioChunks : chunk' = b
         /\ nChunks' = nChunks + 1
         /\ pcCapture' = "chunk_send"
         /\ UNCHANGED capDev
    ELSE /\ CaptureFinally
         /\ UNCHANGED << chunk, nChunks >>

\* An awaited send has two moments: the transport takes the event (it is on
\* the wire), and later the awaiting task is resumed.  A cancellation can
\* reach the task before the first or between the two; Task.cancel() cancels
\* the awaited operation at once, so nothing is taken after the request.

\* first run of the task: the device is opened (lines 337-344) and the send
\* of start_audio_input is awaited (line 349)
CaptureStart ==
  /\ pcCapture = "created"
  /\ capDev' = "open"
  /\ pcCapture' = "open_send"
  /\ UNCHANGED << sent, chunk, nChunks, cancelReq >>
  /\ CaptureFrame

\* the transport takes the AUDIO contentStart (lines 197, 68)
CaptureOpenTaken ==
  /\ pcCapture = "open_send"
  /\ "capture" \notin cancelReq
  /\ CanSend
  /\ sent' = Append(sent, audio_content_start)
  /\ pcCapture' = "open_sent"
  /\ UNCHANGED << capDev, chunk, nChunks, cancelReq >>
  /\ CaptureFrame

\* start_audio_input returns; the try block is entered
CaptureOpenReturns ==
  /\ pcCapture = "open_sent"
  /\ "capture" \notin cancelReq
  /\ CaptureLoop
  /\ UNCHANGED << sent, cancelReq >>
  /\ CaptureFrame

\* the transport takes the audioInput (lines 216, 68)
CaptureChunkTaken ==
  /\ pcCapture = "chunk_send"
  /\ "capture" \notin cancelReq
  /\ CanSend
  /\ sent' = Append(sent, audio_event(chunk))
  /\ pcCapture' = "chunk_sent"
  /\ UNCHANGED << capDev, chunk, nChunks, cancelReq >>
  /\ CaptureFrame

\* send_audio_chunk returns; asyncio.sleep(0.01) is awaited
CaptureChunkReturns ==
  /\ pcCapture = "chunk_sent"
  /\ "capture" \notin cancelReq
  /\ pcCapture' = "sleep"
  /\ UNCHANGED << sent, capDev, chunk, nChunks, cancelReq >>
  /\ CaptureFrame

\* the sleep is over: next iteration
CaptureWake ==
  /\ pcCapture = "sleep"
  /\ "capture" \notin cancelReq
  /\ CaptureLoop
  /\ UNCHANGED << sent, cancelReq >>
  /\ CaptureFrame

\* CaptureCancelledOpening as if line 349 were inside the try block: the
\* finally block runs
CaptureCancelledOpeningInTry ==
  /\ pcCapture \in { "open_send", "open_sent" }
  /\ "capture" \in cancelReq
  /\ cancelReq' = cancelReq \ { "capture" }
  /\ CaptureFinally
  /\ UNCHANGED << sent, chunk, nChunks >>
  /\ CaptureFrame

\* CancelledError at line 349, outside the try block: it leaves the task
CaptureCancelledOpening ==
  /\ pcCapture \in { "open_send", "open_sent" }
  /\ "capture" \in cancelReq
  /\ cancelReq' = cancelReq \ { "capture" }
  /\ pcCapture' = "done"
  /\ UNCHANGED << sent, capDev, chunk, nChunks >>
  /\ CaptureFrame

\* CancelledError at line 354 or 355: handler of line 356, then finally
CaptureCancelledInLoop ==
  /\ pcCapture \in { "chunk_send", "chunk_sent", "sleep" }
  /\ "capture" \in cancelReq
  /\ cancelReq' = cancelReq \ { "capture" }
  /\ CaptureFinally
  /\ UNCHANGED << sent, chunk, nChunks >>
  /\ CaptureFrame

\* the send of end_audio_input (line 365) completes and the task ends
CaptureCloseSent ==
  /\ pcCapture = "close_send"
  /\ "capture" \notin cancelReq
  /\ sent' = IF CanSend THEN Append(sent, audio_content_end) ELSE sent
  /\ pcCapture' = "done"
  /\ UNCHANGED << capDev, chunk, nChunks, cancelReq >>
  /\ CaptureFrame

(* ------------------------------- main() ------------------------------- *)
MainFrame ==
  UNCHANGED << role, display_assistant_text, audio_queue, printed, nIn, capDev,
               playDev, chunk, nChunks, played, lastOp, prevOp, nOps, obsVars >>

\* start_session up to its first send: the stream is opened (line 76) and
\* is_active set (line 79)
MainStartInvoke ==
  /\ pcMain = "init"
  /\ stream' = "open"
  /\ is_active' = TRUE
  /\ pcMain' = "start_session"
  /\ UNCHANGED << response, sent, respTask, respCancel, startStep, pcCapture,
                  pcPlayback, cancelReq, opResult, nStarts >>
  /\ MainFrame

\* the next send_event of start_session (lines 95, 119, 138, 157, 169)
MainStartSend ==
  /\ pcMain = "start_session"
  /\ startStep < Len(StartEvents)
  /\ CanSend
  /\ sent' = Append(sent, StartEvents[startStep + 1])
  /\ startStep' = startStep + 1
  /\ UNCHANGED << is_active, stream, response, respTask, respCancel, pcMain,
                  pcCapture, pcPlayback, cancelReq, opResult, nStarts >>
  /\ MainFrame

\* line 172, then lines 396-403: the three tasks exist and main waits for
\* Enter in the executor
MainStartTasks ==
  /\ pcMain = "start_session"
  /\ startStep = Len(StartEvents)
  /\ CreateResponseTask
  /\ nStarts' = nStarts + 1
  /\ pcPlayback' = "created"
  /\ pcCapture' = "created"
  /\ pcMain' = "wait_input"
  /\ UNCHANGED << is_active, stream, sent, respCancel, startStep, cancelReq, opResult >>
  /\ MainFrame

\* Enter: lines 404-418.  The executor's result reaches the loop only after
\* the two tasks created before the wait have had their first run.
MainSignal ==
  /\ pcMain = "wait_input"
  /\ pcPlayback # "created"
  /\ pcCapture # "created"
  /\ is_active' = FALSE
  /\ cancelReq' = (IF pcPlayback # "done" THEN { "playback" } ELSE {})
                    \cup (IF pcCapture # "done" THEN { "capture" } ELSE {})
  /\ pcMain' = "gather"
  /\ UNCHANGED << stream, response, sent, respTask, respCancel, startStep, pcCapture,
                  pcPlayback, opResult, nStarts >>
  /\ MainFrame

\* gather returned: lines 420-425, the response task is cancelled if it is
\* not done and end_session is called
MainEnd ==
  /\ pcMain = "gather"
  /\ pcPlayback = "done"
  /\ pcCapture = "done"
  /\ respCancel' = IF response # 0 /\ respTask[response] # "done"
                     THEN respCancel \cup { response } ELSE respCancel
  /\ end_session
  /\ pcMain' = "done"
  /\ UNCHANGED << startStep, pcCapture, pcPlayback, cancelReq >>
  /\ MainFrame

Next ==
  \/ MainStartInvoke
  \/ MainStartSend
  \/ MainStartTasks
  \/ MainSignal
  \/ MainEnd
  \/ CaptureStart
  \/ CaptureOpenTaken
  \/ CaptureOpenReturns
  \/ CaptureChunkTaken
  \/ CaptureChunkReturns
  \/ CaptureWake
  \/ CaptureCancelledOpening
  \/ CaptureCancelledInLoop
  \/ CaptureCloseSent
  \/ PlaybackStart
  \/ PlaybackGet
  \/ PlaybackTimeout
  \/ PlaybackCancelled
  \/ Dispatch
  \/ DispatchCancelled

Spec == Init /\ [][Next]_vars

(* --------------------- the loops on their own ------------------------- *)
\* A client that has awaited start_session, created the play_audio task and
\* later awaits end_session, without cancelling anything: the response task
\* and the playback task run against the inbound stream.

\* what an observer of the inbound stream notes of message m
Observe(m) ==
  LET isJson == "bytes" \in DOMAIN m /\ m.bytes.wellformed
      ev == IF isJson /\ "event" \in DOMAIN m.bytes.value
              THEN m.bytes.value.event ELSE [none |-> TRUE]
      isStart == "contentStart" \in DOMAIN ev
      isAudio == "audioOutput" \in DOMAIN ev /\ "content" \in DOMAIN ev.audioOutput
      hasHint == /\ isStart
                 /\ "additionalModelFields" \in DOMAIN ev.contentStart
                 /\ ev.contentStart.additionalModelFields.wellformed
                 /\ "generationStage"
                      \in DOMAIN ev.contentStart.additionalModelFields.value
  IN /\ lastIn' = m
     /\ lastStart' = IF isStart THEN ev.contentStart ELSE lastStart
     /\ hinted' = (hinted \/ hasHint)
     /\ audioIn' = IF isAudio THEN Append(audioIn, ev.audioOutput.content) ELSE audioIn

\* state after start_session (lines 70-172) and create_task(play_audio())
InitLoops ==
  /\ is_active = TRUE
  /\ stream = "open"
  /\ response = 1
  /\ role = "None"
  /\ display_assistant_text = FALSE
  /\ audio_queue = << >>
  /\ sent = StartEvents
  /\ respTask = [i \in TaskIds |-> IF i = 1 THEN "await" ELSE "none"]
  /\ respCancel = {}
  /\ pcMain = "loops"
  /\ startStep = Len(StartEvents)
  /\ pcCapture = "none"
  /\ pcPlayback = "created"
  /\ cancelReq = {}
  /\ capDev = "unopened"
  /\ playDev = "unopened"
  /\ chunk = << >>
  /\ nChunks = 0
  /\ printed = << >>
  /\ played = << >>
  /\ nIn = 0
  /\ lastOp = "start_session"
  /\ prevOp = "none"
  /\ opResult = "ok"
  /\ nOps = 1
  /\ nStarts = 1
  /\ lastIn = [none |-> TRUE]
  /\ lastStart = [none |-> TRUE]
  /\ hinted = FALSE
  /\ audioIn = << >>

\* the response task is resumed with the next message of the stream
DispatchObserved ==
  \E id \in TaskIds, m \in InboundMessages :
    /\ respTask[id] = "await"
    /\ id \notin respCancel
    /\ nIn < MaxReceived
    /\ nIn' = nIn + 1
    /\ process_responses(id, m)
    /\ Observe(m)
    /\ UNCHANGED << is_active, stream, response, sent, respCancel, taskVars, played,
                    apiVars, nStarts >>

\* the client awaits end_session: the session becomes inactive
LoopsEndSession ==
  /\ pcMain = "loops"
  /\ is_active
  /\ end_session
  /\ UNCHANGED << role, display_assistant_text, audio_queue, respCancel, taskVars,
                  printed, played, nIn, lastOp, prevOp, nOps, obsVars >>

\* a step of the play_audio task that is not a cancellation
PlaybackStep == PlaybackStart \/ PlaybackGet \/ PlaybackTimeout

NextLoops ==
  \/ DispatchObserved
  \/ LoopsEndSession
  \/ PlaybackStart
  \/ PlaybackGet
  \/ PlaybackTimeout

\* the event loop resumes the playback task whenever its wait is over, by
\* data or by the 0.5 s timeout
SpecLoops == InitLoops /\ [][NextLoops]_vars /\ WF_vars(PlaybackStep)

(* ------------------------ reading the wire ---------------------------- *)
\* positions of sent holding an event of the given name
Named(name) == { i \in 1..Len(sent) : sent[i].event = name }

\* positions of sent holding a contentStart / contentEnd of content id cn
StartsOf(cn) ==
  { i \in Named("contentStart") : sent[i].contentName = cn }
EndsOf(cn) ==
  { i \in Named("contentEnd") : sent[i].contentName = cn }

\* content id cn is open after the first n events of sent
OpenAfter(cn, n) ==
  Cardinality({ i \in StartsOf(cn) : i <= n }) > Cardinality({ i \in EndsOf(cn) : i <= n })

ContentIds == { content_name, audio_content_name }

(* ------------------------------ claims -------------------------------- *)
\* C1: once main() has run its shutdown after the end-of-conversation signal
\* (session inactive, loops cancelled, end_session called), the transport
\* holds exactly one promptEnd followed by exactly one sessionEnd as its last
\* two events and the input stream is closed.
C1_ShutdownEndsSession ==
  pcMain = "done" =>
    /\ Cardinality(Named("promptEnd")) = 1
    /\ Cardinality(Named("sessionEnd")) = 1
    /\ Len(sent) >= 2
    /\ sent[Len(sent) - 1].event = "promptEnd"
    /\ sent[Len(sent)].event = "sessionEnd"
    /\ stream = "closed"

\* C2: the first five events on the transport are sessionStart, promptStart,
\* contentStart(TEXT, SYSTEM), textInput, contentEnd of the same content id,
\* in this order, nothing else is among them, none of them is sent again, and
\* no task (response, capture, playback) exists before the fifth is sent.
C2_StartOrder ==
  /\ \A i \in 1..Len(sent) :
       /\ i = 1 <=> sent[i].event = "sessionStart"
       /\ i = 2 <=> sent[i].event = "promptStart"
       /\ i = 3 <=> (sent[i].event = "contentStart" /\ sent[i].type = "TEXT")
       /\ i = 3 => sent[i].role = "SYSTEM"
       /\ i = 4 <=> sent[i].event = "textInput"
       /\ i = 4 => sent[i].contentName = sent[3].contentName
       /\ i = 5 <=> (sent[i].event = "contentEnd"
                       /\ sent[i].contentName = sent[3].contentName)
  /\ (response # 0 \/ pcCapture # "none" \/ pcPlayback # "none"
        \/ \E id \in TaskIds : respTask[id] # "none") => Len(sent) >= 5
  /\ pcMain \in { "wait_input", "gather", "done" } => Len(sent) >= 5

\* C2 witness: start_session has returned with exactly its five events on the
\* wire and the response task just created
C2_Witness ==
  /\ pcMain = "wait_input"
  /\ Len(sent) = 5
  /\ response = 1
  /\ respTask[1] = "await"

\* C3: main() has shut down and the AUDIO contentStart was on the wire when
\* the loops were cancelled: exactly one AUDIO contentEnd is on the wire, and
\* no promptEnd precedes it.
C3_ShutdownClosesAudio ==
  (pcMain = "done" /\ StartsOf(audio_content_name) # {}) =>
    /\ Cardinality(EndsOf(audio_content_name)) = 1
    /\ \A i \in EndsOf(audio_content_name), j \in Named("promptEnd") : i < j

\* C4: whenever a promptEnd is on the wire, every contentStart sent before
\* it has its contentEnd before it too (no content stream is open when the
\* prompt ends), whatever methods were called before end_session.
C4_NothingOpenAtPromptEnd ==
  \A i \in Named("promptEnd"), cn \in ContentIds : ~OpenAfter(cn, i)

\* a step of the API driver that is a call of method op
IsCall(op) == lastOp' = op /\ nOps' = nOps + 1

\* C5: a call of end_session on a session that was never started or whose
\* stream is closed, or that follows another end_session call, sends nothing,
\* raises nothing and changes no field of the session; a call on an active
\* session puts exactly promptEnd then sessionEnd on the wire and closes the
\* stream.  Hence consecutive calls yield one promptEnd/sessionEnd pair.
C5_EndIdempotent ==
  [][ IsCall("end_session") =>
        /\ (stream \in { "None", "closed" } \/ lastOp = "end_session") =>
             /\ sent' = sent
             /\ opResult' = "ok"
             /\ UNCHANGED << sessionVars, respTask, respCancel >>
        /\ (stream = "open" /\ is_active) =>
             /\ Len(sent') = Len(sent) + 2
             /\ SubSeq(sent', 1, Len(sent)) = sent
             /\ sent'[Len(sent) + 1].event = "promptEnd"
             /\ sent'[Len(sent) + 2].event = "sessionEnd"
             /\ stream' = "closed"
             /\ ~is_active'
    ]_vars

\* C5 witness: a started session on which end_session was called twice in a
\* row, with one promptEnd and one sessionEnd on the wire
C5_Witness ==
  /\ prevOp = "end_session"
  /\ lastOp = "end_session"
  /\ nStarts = 1
  /\ Cardinality(Named("promptEnd")) = 1
  /\ Cardinality(Named("sessionEnd")) = 1
  /\ stream = "closed"

\* C6: every audioInput on the wire comes after an AUDIO contentStart of its
\* content id whose contentEnd has not been sent yet.
C6_AudioInputOnlyWhenOpen ==
  \A i \in Named("audioInput") : OpenAfter(sent[i].contentName, i)

\* C7: a call of start_session on a session that was started before raises,
\* puts nothing on the wire and creates no response task.
C7_SecondStartRejected ==
  [][ (IsCall("start_session") /\ nStarts >= 1) =>
        /\ opResult' = "raised"
        /\ sent' = sent
        /\ respTask' = respTask
    ]_vars

\* C8: at no point of the wire are two AUDIO content streams open: between
\* two AUDIO contentStart events there is an AUDIO contentEnd.
C8_OneAudioStreamOpen ==
  \A n \in 0..Len(sent) :
    Cardinality({ i \in StartsOf(audio_content_name) : i <= n })
      <= Cardinality({ i \in EndsOf(audio_content_name) : i <= n }) + 1

\* C9: a response task stops awaiting messages only when the session is
\* inactive or the task was cancelled; in particular no single message,
\* malformed or not, ends it while the session is active.
C9_MalformedKeepsDispatcher ==
  [][ \A id \in TaskIds :
        (respTask[id] = "await" /\ respTask'[id] = "done") =>
          (~is_active \/ id \in respCancel)
    ]_vars

\* C10: when the capture task has finished its device is released and no
\* AUDIO content stream is left open on the wire; when the playback task has
\* finished its device is released.
C10_NoLeakOnCancel ==
  /\ pcCapture = "done" =>
       /\ capDev = "released"
       /\ ~OpenAfter(audio_content_name, Len(sent))
  /\ pcPlayback = "done" => playDev = "released"

\* C11: at the step in which main() calls end_session (after gather has
\* returned), the capture, playback and response tasks are all done and none
\* has a cancellation pending.
C11_EndAfterAllTasksDone ==
  [][ (pcMain = "gather" /\ pcMain' = "done") =>
        /\ pcCapture' = "done"
        /\ pcPlayback' = "done"
        /\ cancelReq' = {}
        /\ \A id \in TaskIds : respTask'[id] \in { "none", "done" }
    ]_vars

(* ------------------- reading the inbound stream ----------------------- *)
\* the object under "event" of message m, if m is a JSON text that has one
EventOf(m) ==
  IF "bytes" \in DOMAIN m /\ m.bytes.wellformed /\ "event" \in DOMAIN m.bytes.value
    THEN m.bytes.value.event ELSE [none |-> TRUE]

\* m is a textOutput event carrying a content
IsTextOutput(m) ==
  /\ "textOutput" \in DOMAIN EventOf(m)
  /\ "content" \in DOMAIN EventOf(m).textOutput

\* a step in which the response task receives a message (then lastIn')
Receives == nIn' = nIn + 1

\* the generationStage hint of a contentStart body, "none" if it has none
StageOf(cs) ==
  IF /\ "additionalModelFields" \in DOMAIN cs
     /\ cs.additionalModelFields.wellformed
     /\ "generationStage" \in DOMAIN cs.additionalModelFields.value
    THEN cs.additionalModelFields.value.generationStage
    ELSE "none"

\* C12: role is the role of the contentStart received last ("None" and
\* nothing printed before the first one); a textOutput received prints one
\* ASSISTANT line iff role = ASSISTANT and display_assistant_text, one USER
\* line iff role = USER, and nothing otherwise; no other message prints.
C12_TextDisplayRule ==
  /\ [](/\ "role" \in DOMAIN lastStart => role = lastStart.role
        /\ lastStart = [none |-> TRUE] => (role = "None" /\ printed = << >>))
  /\ [][ Receives =>
           IF IsTextOutput(lastIn')
             THEN printed' = printed \o
                    (IF role = "ASSISTANT" /\ display_assistant_text
                       THEN << [who |-> "ASSISTANT",
                                text |-> EventOf(lastIn').textOutput.content] >>
                     ELSE IF role = "USER"
                       THEN << [who |-> "USER",
                                text |-> EventOf(lastIn').textOutput.content] >>
                     ELSE << >>)
             ELSE printed' = printed
       ]_vars

\* C12 witness: a textOutput was received under role ASSISTANT with the flag
\* set and its line is the last one printed, after a USER line
C12_Witness ==
  /\ IsTextOutput(lastIn)
  /\ role = "ASSISTANT"
  /\ display_assistant_text
  /\ Len(printed) = 2
  /\ printed[1].who = "USER"
  /\ printed[2].who = "ASSISTANT"

\* C13: a textOutput received while the contentStart received last is an
\* ASSISTANT one prints its ASSISTANT line when that contentStart was
\* SPECULATIVE and prints nothing when it was FINAL: of the two variants of
\* an utterance only the speculative one is rendered.
C13_SpeculativeOnly ==
  [][ (/\ Receives
       /\ IsTextOutput(lastIn')
       /\ "role" \in DOMAIN lastStart
       /\ lastStart.role = "ASSISTANT") =>
        /\ StageOf(lastStart) = "SPECULATIVE" =>
             printed' = Append(printed,
                          [who |-> "ASSISTANT",
                           text |-> EventOf(lastIn').textOutput.content])
        /\ StageOf(lastStart) = "FINAL" => printed' = printed
    ]_vars

\* C13 witness: SPECULATIVE contentStart, textOutput, FINAL contentStart,
\* textOutput were received and one ASSISTANT line is printed
C13_Witness ==
  /\ nIn = 4
  /\ IsTextOutput(lastIn)
  /\ "role" \in DOMAIN lastStart
  /\ lastStart.role = "ASSISTANT"
  /\ StageOf(lastStart) = "FINAL"
  /\ Len(printed) = 1
  /\ printed[1].who = "ASSISTANT"

\* the raw chunks of the audioOutput contents cs that decode, in order
RECURSIVE DecodedChunks(_)
DecodedChunks(cs) ==
  IF cs = << >> THEN << >>
  ELSE (IF b64decode(Head(cs)).ok THEN << b64decode(Head(cs)).bytes >> ELSE << >>)
         \o DecodedChunks(Tail(cs))

\* m is an audioOutput event whose content decodes
IsAudioOutput(m) ==
  /\ "audioOutput" \in DOMAIN EventOf(m)
  /\ "content" \in DOMAIN EventOf(m).audioOutput
  /\ b64decode(EventOf(m).audioOutput.content).ok

\* C14: the chunks written to the playback device followed by the chunks
\* waiting in audio_queue are exactly the decoded contents of the audioOutput
\* messages received, each once and in order of arrival; the step that
\* receives an audioOutput queues its chunk at once and, the session being
\* active, leaves the response task awaiting the next message.
C14_AudioRelayInOrder ==
  /\ [](played \o audio_queue = DecodedChunks(audioIn))
  /\ [][ (Receives /\ IsAudioOutput(lastIn')) =>
           /\ audio_queue'
                = Append(audio_queue, b64decode(EventOf(lastIn').audioOutput.content).bytes)
           /\ is_active => respTask'[response] = "await"
       ]_vars

\* C14 witness: three audioOutput messages were received while the session
\* is active, two different chunks were played in order, one is queued
C14_Witness ==
  /\ is_active
  /\ Len(audioIn) = 3
  /\ played = << << 0, 1, 2 >>, << 255, 16 >> >>
  /\ Len(audio_queue) = 1

\* m is a contentStart event with a role and without a generationStage
\* hint: no additionalModelFields, or one that parses and has no such key
IsHintlessStart(m) ==
  /\ "contentStart" \in DOMAIN EventOf(m)
  /\ "role" \in DOMAIN EventOf(m).contentStart
  /\ ("additionalModelFields" \in DOMAIN EventOf(m).contentStart
        => EventOf(m).contentStart.additionalModelFields.wellformed)
  /\ StageOf(EventOf(m).contentStart) = "none"

\* C18: a contentStart without a generationStage hint leaves
\* display_assistant_text unchanged if no contentStart before it carried a
\* hint, and leaves it false if one did.
C18_HintlessStartClearsFlag ==
  [][ (Receives /\ IsHintlessStart(lastIn')) =>
        IF hinted
          THEN display_assistant_text' = FALSE
          ELSE display_assistant_text' = display_assistant_text
    ]_vars

\* C19: with no cancellation requested, once is_active is false the playback
\* task eventually is done with its device released; the first step it takes
\* while the session is inactive (one queue wait ending by data or by
\* timeout) is its last; and once it is done nothing more is written to the
\* device and nothing is taken from audio_queue.
C19_PlaybackStopsWhenInactive ==
  /\ (~is_active) ~> (pcPlayback = "done" /\ playDev = "released")
  /\ [][ (~is_active /\ (pcPlayback' # pcPlayback \/ played' # played)) =>
           (pcPlayback' = "done" /\ playDev' = "released" /\ cancelReq = {})
       ]_vars
  /\ [][ pcPlayback = "done" =>
           /\ played' = played
           /\ Len(audio_queue') >= Len(audio_queue)
           /\ SubSeq(audio_queue', 1, Len(audio_queue)) = audio_queue
       ]_vars

\* C19 witness: the session is inactive, nothing was cancelled, the playback
\* task is done with its device released and a chunk is left in the queue
C19_Witness ==
  /\ ~is_active
  /\ cancelReq = {}
  /\ pcPlayback = "done"
  /\ playDev = "released"
  /\ audio_queue # << >>

ReadsChunk == Next /\ nChunks' = nChunks + 1

\* a step in which the playback loop writes a chunk to its device
WritesChunk == Next /\ Len(played') = Len(played) + 1

\* C17: while the send of an audioInput has not completed (the transport has
\* not taken the event) and the session is active and not being shut down,
\* the capture loop can still read a further chunk, and the playback loop can
\* still write a queued chunk.
C17_PendingSendBlocksNoLoop ==
  (pcCapture = "chunk_send" /\ is_active /\ cancelReq = {}) =>
    /\ nChunks < MaxChunks => ENABLED ReadsChunk
    /\ (pcPlayback = "wait" /\ audio_queue # << >>) => ENABLED WritesChunk

\* ---------------------------------------------------------------------
\* main() over a transport whose sends can fail: input_stream.send
\* (line 68) raises instead of taking the event

\* a send_event of start_session raises: start_session has no handler and
\* its call (line 393) is outside main's try block (line 401), so the
\* exception leaves main; lines 405-425 do not run
MainStartSendFails ==
  /\ pcMain = "start_session"
  /\ startStep < Len(StartEvents)
  /\ CanSend
  /\ pcMain' = "failed"
  /\ UNCHANGED << is_active, stream, response, sent, respTask, respCancel, startStep,
                  pcCapture, pcPlayback, cancelReq, opResult, nStarts >>
  /\ MainFrame

\* the send of start_audio_input raises at line 349, outside the try block:
\* the exception ends the task, the device stays open
CaptureOpenSendFails ==
  /\ pcCapture = "open_send"
  /\ "capture" \notin cancelReq
  /\ CanSend
  /\ pcCapture' = "done"
  /\ UNCHANGED << sent, capDev, chunk, nChunks, cancelReq >>
  /\ CaptureFrame

\* the send of send_audio_chunk raises at line 354: except Exception
\* (lines 358-359) prints it, then the finally block runs
CaptureChunkSendFails ==
  /\ pcCapture = "chunk_send"
  /\ "capture" \notin cancelReq
  /\ CanSend
  /\ CaptureFinally
  /\ UNCHANGED << sent, chunk, nChunks, cancelReq >>
  /\ CaptureFrame

\* the send of end_audio_input raises at line 365, in the finally block: the
\* exception ends the task
CaptureCloseSendFails ==
  /\ pcCapture = "close_send"
  /\ "capture" \notin cancelReq
  /\ CanSend
  /\ pcCapture' = "done"
  /\ UNCHANGED << sent, capDev, chunk, nChunks, cancelReq >>
  /\ CaptureFrame

NextFault ==
  \/ Next
  \/ MainStartSendFails
  \/ CaptureOpenSendFails
  \/ CaptureChunkSendFails
  \/ CaptureCloseSendFails

SpecFault == Init /\ [][NextFault]_vars

\* main has returned or was left by an exception
MainReturned == pcMain \in { "done", "failed" }

\* line 424 has run
EndSessionCalled == pcMain = "done"

\* C16: when main() is over and a sessionStart was sent, end_session has
\* been called, also when a send failed in start_session or in the capture
\* task.
C16_FailedSendStillEnds ==
  (MainReturned /\ Named("sessionStart") # {}) => EndSessionCalled

\* C20: in every run of main() the events of the AUDIO content id are
\* bracketed: at most one contentStart and at most one contentEnd, every
\* audioInput carries the AUDIO content id and lies after the contentStart
\* and before the contentEnd, and a contentEnd is on the wire only after the
\* contentStart, from a capture task that entered its try block (its finally
\* block has released the device).
C20_AudioStreamBracketed ==
  /\ Cardinality(StartsOf(audio_content_name)) <= 1
  /\ Cardinality(EndsOf(audio_content_name)) <= 1
  /\ \A i \in Named("audioInput") :
       /\ sent[i].contentName = audio_content_name
       /\ \E j \in StartsOf(audio_content_name) : j < i
       /\ \A k \in EndsOf(audio_content_name) : i < k
  /\ \A k \in EndsOf(audio_content_name) :
       /\ \E j \in StartsOf(audio_content_name) : j < k
       /\ capDev = "released"

\* C20 witness: the capture task is done after contentStart, two audioInput
\* events and the contentEnd were sent, in this order
C20_Witness ==
  /\ pcCapture = "done"
  /\ Len(sent) = 9
  /\ sent[6].event = "contentStart"
  /\ sent[7].event = "audioInput"
  /\ sent[8].event = "audioInput"
  /\ sent[9].event = "contentEnd"

=============================================================================
